---------------------------- MODULE Spec2Model ----------------------------
(***************************************************************************)
(* A model of SuperMarioBrosEnv (src/gym_super_mario_bros/smb_env.py): the *)
(* decoding of the console's memory image, the reward and done functions,  *)
(* the frame-skip procedures of _did_step and _skip_start_screen, the      *)
(* reset/backup life cycle and the tile grid of _get_tiles.                *)
(*                                                                         *)
(* The emulation core (nes_py) is an external collaborator: one frame      *)
(* advance replaces the memory image by an image the core chooses, drawn   *)
(* here from a bounded set of images.                                      *)
(***************************************************************************)
EXTENDS Integers, Sequences, FiniteSets, TLC

VARIABLES
    ram,              \* the memory image (self.ram), a record of registers
    target,           \* (_target_world, _target_stage, _target_area)
    x_position_last,  \* self._x_position_last
    time_last,        \* self._time_last
    r,                \* self.r, the last computed reward
    done,             \* self.done, the flag returned by the last step
    backup,           \* the core's backup snapshot: <<>> or <<image>>
    pc,               \* the position of the program
    loc,              \* the local `time` of _skip_end_of_world: <<>> or <<t>>
    log,              \* RAM writes and frame advances of the last operation
    bonus,            \* steps of the current episode that got the flag bonus
    fresh,            \* the last call was a reset that restored the backup
    out               \* the value returned by the last pure evaluation

vars == <<ram, target, x_position_last, time_last, r, done, backup, pc, loc,
          log, bonus, fresh, out>>

---------------------------------------------------------------------------
(* Bounds of the model.                                                    *)

\* the time digits the core produces are <<0, 0, t>> with t in 0..MaxTime
MaxTime == 2
\* the x pixel the core produces during play is in 0..MaxX
MaxX == 1

---------------------------------------------------------------------------
(* Program constants.                                                      *)

DEAD == 6            \* player_state 0x06
DYING == 11          \* player_state 0x0b
NORMAL == 8          \* player_state 0x08
BOWSER == 45         \* 0x2D
FLAGPOLE == 49       \* 0x31
NO_LIVES == 255      \* 0xff
END_OF_WORLD == 2    \* gameplay mode 2
FLOAT_STAGE == 3     \* float state 3
FLAG_BONUS == 1000000
STALL_PENALTY == -10
TIMEOUT_PENALTY == -5000
TIME_REWARD == 5
DEATH_PENALTY == -5000
REWARD_MIN == -15
REWARD_MAX == 15
START == 8           \* the start button's bit
NOP == 0             \* no button
PAGE == 256          \* 0x100

\* a set of state values indicating that Mario is "busy"
BUSY_STATES == {0, 1, 2, 3, 4, 5, 7}

\* enemies whose context indicate that a stage change will occur
STAGE_OVER_ENEMIES == {BOWSER, FLAGPOLE}

\* the indexes of the enemy type slots 0x16..0x1A
ENEMY_TYPE_SLOTS == 1..5

\* enemy types that are no stage-over sentinel: a vine (0x2F)
OtherEnemies == {47}

---------------------------------------------------------------------------
(* Memory access.  A memory image is a record, one field per register:     *)
(*   ps 0x000e player state      yv 0x00b5 y viewport   ypx 0x03b8 y pixel *)
(*   life 0x075a   mode 0x0770 gameplay mode   fs 0x001D float state       *)
(*   en 0x0016..0x001A enemy types             tm 0x07f8..0x07fa time      *)
(*   sc 0x07de..0x07e3 score    co 0x07ed..0x07ee coins   st 0x0756 status *)
(*   page 0x6d   px 0x86   scr 0x071c screen left                          *)
(*   cat 0x06DE change-area timer    plt 0x07A0 pre-level timer            *)
(*   wld 0x075f   stg 0x075c   are 0x0760                                  *)
(*   act 0x0F..0x12 enemy active  epage 0x6e..  ex 0x87..  ey 0xcf..       *)
(*   solid: the addresses of the collision table 0x500.. holding a         *)
(*   non-zero byte                                                         *)

\* the number of characters of str(n), n a byte
StrLen(n) == IF n < 10 THEN 1 ELSE IF n < 100 THEN 2 ELSE 3

Pow10(k) == IF k = 1 THEN 10 ELSE IF k = 2 THEN 100 ELSE 1000

RECURSIVE JoinDigits(_, _)
\* int(''.join(map(str, cells))) continued from the value acc
JoinDigits(cells, acc) ==
    IF cells = <<>> THEN acc
    ELSE JoinDigits(Tail(cells), acc * Pow10(StrLen(Head(cells))) + Head(cells))

ReadMemRange(cells) == JoinDigits(cells, 0)

World(m) == m.wld + 1
Stage(m) == m.stg + 1
Area(m) == m.are + 1
Score(m) == ReadMemRange(m.sc)
Time(m) == ReadMemRange(m.tm)
Coins(m) == ReadMemRange(m.co)
Life(m) == m.life
XPosition(m) == m.page * PAGE + m.px
LeftXPosition(m) == (m.px - m.scr) % PAGE
YPixel(m) == m.ypx
YViewport(m) == m.yv
YPosition(m) == IF YViewport(m) < 1 THEN 255 + (255 - YPixel(m))
                ELSE 255 - YPixel(m)
PlayerStatus(m) == IF m.st = 0 THEN "small"
                   ELSE IF m.st = 1 THEN "tall" ELSE "fireball"
PlayerState(m) == m.ps

IsDying(m) == PlayerState(m) = DYING \/ YViewport(m) > 1
IsDead(m) == PlayerState(m) = DEAD
IsGameOver(m) == Life(m) = NO_LIVES
IsBusy(m) == PlayerState(m) \in BUSY_STATES
IsWorldOver(m) == m.mode = END_OF_WORLD

IsStageOverNoSentinel(m) == m.fs = FLOAT_STAGE

IsStageOver(m) ==
    IF \E i \in ENEMY_TYPE_SLOTS : m.en[i] \in STAGE_OVER_ENEMIES
    THEN m.fs = FLOAT_STAGE
    ELSE FALSE

FlagGet(m) == IsWorldOver(m) \/ IsStageOver(m)

\* an optional value: <<>> is None, <<v>> is v
IsSingleStageEnv(t) == t.world # <<>> /\ t.area # <<>>

GetDoneNoDying(m, t) ==
    IF IsSingleStageEnv(t) THEN IsDead(m) \/ FlagGet(m) ELSE IsGameOver(m)

GetDoneGameOverOnly(m, t) == IsGameOver(m)

GetDone(m, t) ==
    IF IsSingleStageEnv(t)
    THEN IsDying(m) \/ IsDead(m) \/ FlagGet(m)
    ELSE IsGameOver(m)

---------------------------------------------------------------------------
(* RAM hacks.                                                              *)

W(a, v) == [op |-> "write", a |-> a, v |-> v]
F(v) == [op |-> "frame", a |-> "pad", v |-> v]

WriteStage(m, t) ==
    [m EXCEPT !.wld = t.world[1] - 1, !.stg = t.stage[1] - 1,
              !.are = t.area[1] - 1]

WriteStageLog(t) ==
    <<W("wld", t.world[1] - 1), W("stg", t.stage[1] - 1),
      W("are", t.area[1] - 1)>>

RunoutPrelevelTimer(m) == [m EXCEPT !.plt = 0]

SkipChangeAreaAlways(m) == [m EXCEPT !.cat = 1]

SkipChangeArea(m) ==
    IF m.cat > 1 /\ m.cat < 255 THEN [m EXCEPT !.cat = 1] ELSE m

---------------------------------------------------------------------------
(* Reward function.                                                        *)

XReward(m, xlast) ==
    LET reward == XPosition(m) - xlast
    IN  IF reward = 0 THEN STALL_PENALTY ELSE 0

TimePenaltyDelta(m, tlast) ==
    IF Time(m) = 0 THEN TIMEOUT_PENALTY
    ELSE IF Time(m) - tlast > 0 THEN 0
    ELSE TIME_REWARD

TimePenalty(m, tlast) ==
    LET raw == Time(m) - tlast
        reward == 0
    IN  IF Time(m) = 0 THEN TIMEOUT_PENALTY
        ELSE IF reward > 0 THEN 0
        ELSE TIME_REWARD

DeathPenalty(m) == IF IsDying(m) \/ IsDead(m) THEN DEATH_PENALTY ELSE 0

GetRewardAccumulate(m, xlast, tlast, rlast) ==
    rlast + XReward(m, xlast) + DeathPenalty(m) + TimePenalty(m, tlast)
      + (IF FlagGet(m) THEN FLAG_BONUS ELSE 0)

\* rlast, the stored reward, is overwritten and not read
GetReward(m, xlast, tlast, rlast) ==
    LET base == XReward(m, xlast) + DeathPenalty(m) + TimePenalty(m, tlast)
    IN  IF FlagGet(m) THEN base + FLAG_BONUS ELSE base

---------------------------------------------------------------------------
(* The tile grid.                                                          *)

ADDR_TILES == 1280   \* addr_tiles = 0x500
TILE == 16           \* the side of a tile in pixels
TABLE_ROWS == 13     \* rows of one page of the collision table
HARD_FLOOR == 432    \* 0x1B0
ENEMY_X_SHIFT == 108
ENEMY_Y_SHIFT == 90
MARIO_Y_SHIFT == 80
TILE_X_SHIFT == 112
TILE_Y_SHIFT == 96
NEAR == 8

\* list(range(start, stop, step)) for a positive step
Range(start, stop, step) ==
    [i \in 1..(IF stop > start THEN (stop - start + step - 1) \div step
               ELSE 0) |-> start + (i - 1) * step]

Fabs(v) == IF v < 0 THEN -v ELSE v

\* the slots 0..3 of _get_enemies
ENEMY_SLOTS == 1..4

\* _get_enemies: the active enemies in slot order
GetEnemies(m) ==
    LET slots == SelectSeq([i \in ENEMY_SLOTS |-> i], LAMBDA i : m.act[i] # 0)
    IN  [k \in 1..Len(slots) |->
            [x |-> m.epage[slots[k]] * PAGE + m.ex[slots[k]],
             y |-> m.ey[slots[k]]]]

\* division and remainder that round toward zero
TruncDiv(a, b) == IF a >= 0 THEN a \div b ELSE -((-a) \div b)
TruncRem(a, b) == a - b * TruncDiv(a, b)

TileIndexTruncating(m, box_x, box_y) ==
    LET left_x == LeftXPosition(m)
        local_x == XPosition(m) - left_x + box_x + TILE_X_SHIFT
        local_y == box_y + TILE_Y_SHIFT
        local_page == TruncRem(TruncDiv(local_x, PAGE), 2)
        sub_x == TruncDiv(TruncRem(local_x, PAGE), TILE)
        sub_y == TruncDiv(local_y - 32, TILE)
    IN  [page |-> local_page, sub_x |-> sub_x, sub_y |-> sub_y,
         addr |-> ADDR_TILES + local_page * TABLE_ROWS * TILE + sub_y * TILE
                  + sub_x]

\* the indexes _get_tile_type computes: page, column, row and address
TileIndex(m, box_x, box_y) ==
    LET left_x == LeftXPosition(m)
        local_x == XPosition(m) - left_x + box_x + TILE_X_SHIFT
        local_y == box_y + TILE_Y_SHIFT
        local_page == (local_x \div PAGE) % 2
        sub_x == (local_x % PAGE) \div TILE
        sub_y == (local_y - 32) \div TILE
    IN  [page |-> local_page, sub_x |-> sub_x, sub_y |-> sub_y,
         addr |-> ADDR_TILES + local_page * TABLE_ROWS * TILE + sub_y * TILE
                  + sub_x]

\* the range of _x_position when the registers are 8-bit unsigned numbers
\* (register * 0x100 + register is then a 16-bit unsigned number)
WORD == 65536

\* _get_tile_type's indices when the arithmetic on the registers is done in
\* 16-bit unsigned numbers: the difference wraps, and so does the sum with
\* a non-negative offset (a negative offset widens the sum)
TileIndexWord(m, box_x, box_y) ==
    LET left_x == LeftXPosition(m)
        diff == ((XPosition(m) % WORD) - left_x) % WORD
        local_x == IF box_x < 0 THEN diff + box_x + TILE_X_SHIFT
                   ELSE (diff + box_x + TILE_X_SHIFT) % WORD
        local_y == box_y + TILE_Y_SHIFT
        local_page == (local_x \div PAGE) % 2
        sub_x == (local_x % PAGE) \div TILE
        sub_y == (local_y - 32) \div TILE
    IN  [page |-> local_page, sub_x |-> sub_x, sub_y |-> sub_y,
         addr |-> ADDR_TILES + local_page * TABLE_ROWS * TILE + sub_y * TILE
                  + sub_x]

GetTileType(m, box_x, box_y) ==
    LET t == TileIndex(m, box_x, box_y)
    IN  IF t.sub_y >= TABLE_ROWS \/ t.sub_y < 0 THEN 0
        ELSE IF t.addr \in m.solid THEN 1
        ELSE 0

MarioDistXCentred(m, box_x) == Fabs(box_x)

\* the x distance of the cell box_x from Mario, line 503
MarioDistX(m, box_x) ==
    Fabs(XPosition(m)
         - (XPosition(m) + box_x - LeftXPosition(m) + ENEMY_X_SHIFT))

\* the value of one cell, lines 490-506
TileValue(m, enemies, box_x, box_y) ==
    LET solid == GetTileType(m, box_x, box_y) = 1
                 /\ YPosition(m) + box_y < HARD_FLOOR
        enemy == \E k \in 1..Len(enemies) :
                    /\ Fabs(enemies[k].x - (XPosition(m) + box_x
                                - LeftXPosition(m) + ENEMY_X_SHIFT)) <= NEAR
                    /\ Fabs(enemies[k].y - (ENEMY_Y_SHIFT + box_y)) <= NEAR
        mario == /\ YViewport(m) = 1
                 /\ MarioDistX(m, box_x) <= NEAR
                 /\ Fabs(YPixel(m) - (MARIO_Y_SHIFT + box_y)) <= NEAR
    IN  IF mario THEN 3 ELSE IF enemy THEN 2 ELSE IF solid THEN 1 ELSE 0

\* the sampled offsets, lines 485 and 488
BoxYs == Range(-4 * TILE, 8 * TILE, TILE)
BoxXsShort == Range(-7 * TILE, 7 * TILE, TILE)
BoxXs == Range(-7 * TILE, 8 * TILE, TILE)

GetTiles(m) ==
    LET enemies == GetEnemies(m)
    IN  [i \in 1..Len(BoxYs) |->
            [j \in 1..Len(BoxXs) |->
                TileValue(m, enemies, BoxXs[j], BoxYs[i])]]

GetInfo(m, reward) ==
    [coins |-> Coins(m), flag_get |-> FlagGet(m), life |-> Life(m),
     score |-> Score(m), stage |-> Stage(m), status |-> PlayerStatus(m),
     time |-> Time(m), world |-> World(m), x_pos |-> XPosition(m),
     y_pos |-> YPosition(m), enemy |-> GetTiles(m), reward |-> reward]

---------------------------------------------------------------------------
(* The memory images the emulation core produces.                          *)

NoEnemies == <<0, 0, 0, 0, 0>>

\* the image after the core's reset, before any frame
BootImage ==
    [ps |-> 0, yv |-> 0, ypx |-> 0, life |-> 0, mode |-> 0, fs |-> 0,
     en |-> NoEnemies, tm |-> <<0, 0, 0>>, sc |-> <<0, 0, 0, 0, 0, 0>>,
     co |-> <<0, 0>>, st |-> 0, page |-> 0, px |-> 0, scr |-> 0,
     cat |-> 0, plt |-> 0, wld |-> 0, stg |-> 0, are |-> 0,
     act |-> <<0, 0, 0, 0>>, epage |-> <<0, 0, 0, 0>>,
     ex |-> <<0, 0, 0, 0>>, ey |-> <<0, 0, 0, 0>>, solid |-> {}]

\* an image of normal play: Mario standing in the visible viewport
PlayImage ==
    [BootImage EXCEPT !.ps = NORMAL, !.yv = 1, !.ypx = 176, !.life = 2,
                      !.mode = 1, !.plt = 7, !.px = 1]

\* the frames of the start screen: the clock varies
StartImages == {[PlayImage EXCEPT !.tm = <<0, 0, t>>] : t \in 0..MaxTime}

\* (player state, y viewport): busy, dead, normal, dying, fallen in a hole
PlayerScenes == {<<0, 1>>, <<DEAD, 1>>, <<NORMAL, 1>>, <<DYING, 1>>,
                 <<NORMAL, 2>>}

\* (gameplay mode, enemy slots, float state)
ProgressScenes ==
    {<<1, NoEnemies, 0>>, <<END_OF_WORLD, NoEnemies, 0>>,
     <<1, <<0, 0, FLAGPOLE, 0, 0>>, FLOAT_STAGE>>}

\* the last time digit during play
GameTimes == {0, 1}

\* the frames of play with lives left
AliveImages ==
    {[PlayImage EXCEPT !.ps = p[1], !.yv = p[2], !.mode = g[1],
                       !.en = g[2], !.fs = g[3], !.tm = <<0, 0, t>>,
                       !.px = x] :
        p \in PlayerScenes, g \in ProgressScenes, t \in GameTimes,
        x \in 0..MaxX}

\* the frames of play with no life left
GameOverImages ==
    {[PlayImage EXCEPT !.ps = p[1], !.yv = p[2], !.life = NO_LIVES] :
        p \in PlayerScenes}

\* the frames of play seen by the reward and done functions
GameImages == AliveImages \cup GameOverImages

\* the frames advanced inside the skip procedures of _did_step.  Between
\* such a frame and the frame of the next step (or the restore of the next
\* reset) the code reads the player state, the viewport, the gameplay mode
\* and the clock only: these vary, the other registers keep PlayImage's.
CutsceneImages ==
    {[PlayImage EXCEPT !.ps = p[1], !.yv = p[2], !.mode = g,
                       !.tm = <<0, 0, t>>] :
        p \in PlayerScenes, g \in {1, END_OF_WORLD}, t \in GameTimes}

\* the button mask a caller passes to step (right)
Actions == {128}

NoTarget == [world |-> <<>>, stage |-> <<>>, area |-> <<>>]
Target11 == [world |-> <<1>>, stage |-> <<1>>, area |-> <<1>>]

---------------------------------------------------------------------------
(* nes-py API calls.                                                       *)

\* _will_reset: (time_last, x_position_last)
WillReset == <<0, 0>>

DidResetKeep(m, tl, xl) == <<tl, xl>>

\* _did_reset: (time_last, x_position_last) after the image m is in place
DidReset(m, tl, xl) == <<Time(m), XPosition(m)>>

\* the core's snapshot of its state, and the state a restore puts back
Snapshot(m) == <<m>>
Restore(b) == b[1]

---------------------------------------------------------------------------
(* The state after SuperMarioBrosEnv.__init__ has set its fields (lines    *)
(* 59-67), before it resets the emulator.                                  *)

MaxBonus == 2

InitEnv(t) ==
    /\ ram = BootImage
    /\ target = t
    /\ x_position_last = 0
    /\ time_last = 0
    /\ r = 0
    /\ done = TRUE
    /\ backup = <<>>
    /\ pc = "new"
    /\ loc = <<>>
    /\ log = <<>>
    /\ bonus = 0
    /\ fresh = FALSE
    /\ out = <<>>

Init == \E t \in {NoTarget, Target11} : InitEnv(t)

(* __init__, line 69: self.reset() with no backup yet resets the core.     *)
CtorReset ==
    /\ pc = "new"
    /\ ram' = BootImage
    /\ LET c == DidReset(BootImage, WillReset[1], WillReset[2])
       IN  time_last' = c[1] /\ x_position_last' = c[2]
    /\ done' = FALSE
    /\ pc' = "start_press"
    /\ log' = <<>>
    /\ UNCHANGED <<target, r, backup, loc, bonus, fresh, out>>

(* _skip_start_screen, lines 316-317: press and release start.             *)
StartPress ==
    /\ pc = "start_press"
    /\ \E img \in StartImages : ram' = img
    /\ log' = <<F(START), F(NOP)>>
    /\ pc' = "start_wait"
    /\ UNCHANGED <<target, x_position_last, time_last, r, done, backup, loc,
                   bonus, fresh, out>>

(* _skip_start_screen, lines 319-328: one iteration of the first loop.     *)
StartWait ==
    /\ pc = "start_wait"
    /\ Time(ram) = 0
    /\ \E img \in StartImages : ram' = RunoutPrelevelTimer(img)
    /\ log' = <<F(START)>>
              \o (IF IsSingleStageEnv(target) THEN WriteStageLog(target)
                  ELSE <<>>)
              \o <<F(NOP), W("plt", 0)>>
    /\ UNCHANGED <<target, x_position_last, time_last, r, done, backup, pc,
                   loc, bonus, fresh, out>>

(* _skip_start_screen, lines 319 and 330: the first loop ends.             *)
StartWaitExit ==
    /\ pc = "start_wait"
    /\ Time(ram) # 0
    /\ time_last' = Time(ram)
    /\ pc' = "start_idle"
    /\ log' = <<>>
    /\ UNCHANGED <<ram, target, x_position_last, r, done, backup, loc, bonus,
                   fresh, out>>

StartIdleKeepLast ==
    /\ pc = "start_idle"
    /\ Time(ram) >= time_last
    /\ \E img \in StartImages : ram' = img
    /\ log' = <<F(START), F(NOP)>>
    /\ UNCHANGED <<target, x_position_last, time_last, r, done, backup, pc,
                   loc, bonus, fresh, out>>

(* _skip_start_screen, lines 332-335: one iteration of the second loop.    *)
StartIdle ==
    /\ pc = "start_idle"
    /\ Time(ram) >= time_last
    /\ time_last' = Time(ram)
    /\ \E img \in StartImages : ram' = img
    /\ log' = <<F(START), F(NOP)>>
    /\ UNCHANGED <<target, x_position_last, r, done, backup, pc, loc, bonus,
                   fresh, out>>

CtorBackupEarly ==
    /\ pc = "start_press"
    /\ backup' = Snapshot(ram)
    /\ pc' = "ready"
    /\ log' = <<>>
    /\ UNCHANGED <<ram, target, x_position_last, time_last, r, done, loc,
                   bonus, fresh, out>>

(* __init__, line 73: the second loop has ended, the backup is taken.      *)
CtorBackup ==
    /\ pc = "start_idle"
    /\ Time(ram) < time_last
    /\ backup' = Snapshot(ram)
    /\ pc' = "ready"
    /\ log' = <<>>
    /\ UNCHANGED <<ram, target, x_position_last, time_last, r, done, loc,
                   bonus, fresh, out>>

(* reset(): _will_reset, the core's restore of the backup, _did_reset.     *)
Reset ==
    /\ pc = "ready"
    /\ ram' = Restore(backup)
    /\ LET c == DidReset(Restore(backup), WillReset[1], WillReset[2])
       IN  time_last' = c[1] /\ x_position_last' = c[2]
    /\ done' = FALSE
    /\ bonus' = 0
    /\ fresh' = TRUE
    /\ log' = <<>>
    /\ UNCHANGED <<target, r, backup, pc, loc, out>>

(* step(action): one frame of the core, then _get_reward, _get_done and    *)
(* _get_info on the new image; the call of _did_step(done) follows.        *)
Step(D) ==
    /\ pc = "ready"
    /\ ~done
    /\ bonus < MaxBonus
    /\ \E a \in Actions, img \in D :
        /\ ram' = img
        /\ r' = GetReward(img, x_position_last, time_last, r)
        /\ x_position_last' = XPosition(img)
        /\ done' = GetDone(img, target)
        /\ bonus' = IF FlagGet(img) THEN bonus + 1 ELSE bonus
        /\ log' = <<F(a)>>
        /\ pc' = "did_step"
    /\ fresh' = FALSE
    /\ UNCHANGED <<target, time_last, backup, loc, out>>

(* _did_step, lines 424-425: done is set, nothing is touched.              *)
DidStepDone ==
    /\ pc = "did_step"
    /\ done
    /\ pc' = "ready"
    /\ log' = <<>>
    /\ UNCHANGED <<ram, target, x_position_last, time_last, r, done, backup,
                   loc, bonus, fresh, out>>

(* _did_step, lines 427-428, and _kill_mario: Mario is dying.              *)
KillMario(K) ==
    /\ pc = "did_step"
    /\ ~done
    /\ IsDying(ram)
    /\ \E img \in K : ram' = img
    /\ log' = <<W("ps", DEAD), F(NOP)>>
    /\ pc' = "end_of_world"
    /\ UNCHANGED <<target, x_position_last, time_last, r, done, backup, loc,
                   bonus, fresh, out>>

(* _did_step, line 427: Mario is not dying.                                *)
NoKill ==
    /\ pc = "did_step"
    /\ ~done
    /\ ~IsDying(ram)
    /\ pc' = "end_of_world"
    /\ log' = <<>>
    /\ UNCHANGED <<ram, target, x_position_last, time_last, r, done, backup,
                   loc, bonus, fresh, out>>

\* _did_step line 431 and _skip_end_of_world line 339
EndOfWorldRuns(m, t) == ~IsSingleStageEnv(t) /\ IsWorldOver(m)

(* _skip_end_of_world, lines 339-341: the world is over, note the time.    *)
EndOfWorldEnter ==
    /\ pc = "end_of_world"
    /\ EndOfWorldRuns(ram, target)
    /\ loc' = <<Time(ram)>>
    /\ pc' = "end_of_world_loop"
    /\ log' = <<>>
    /\ UNCHANGED <<ram, target, x_position_last, time_last, r, done, backup,
                   bonus, fresh, out>>

(* _did_step line 431, _skip_end_of_world line 339: nothing to skip.       *)
EndOfWorldNone ==
    /\ pc = "end_of_world"
    /\ ~EndOfWorldRuns(ram, target)
    /\ pc' = "change_area"
    /\ log' = <<>>
    /\ UNCHANGED <<ram, target, x_position_last, time_last, r, done, backup,
                   loc, bonus, fresh, out>>

(* _skip_end_of_world, lines 343-345: one frame while the time is the same *)
EndOfWorldFrame(K) ==
    /\ pc = "end_of_world_loop"
    /\ Time(ram) = loc[1]
    /\ \E img \in K : ram' = img
    /\ log' = <<F(NOP)>>
    /\ UNCHANGED <<target, x_position_last, time_last, r, done, backup, pc,
                   loc, bonus, fresh, out>>

(* _skip_end_of_world, line 343: the time changed, the loop ends.          *)
EndOfWorldExit ==
    /\ pc = "end_of_world_loop"
    /\ Time(ram) # loc[1]
    /\ loc' = <<>>
    /\ pc' = "change_area"
    /\ log' = <<>>
    /\ UNCHANGED <<ram, target, x_position_last, time_last, r, done, backup,
                   bonus, fresh, out>>

(* _did_step line 434: _skip_change_area.                                  *)
ChangeArea ==
    /\ pc = "change_area"
    /\ ram' = SkipChangeArea(ram)
    /\ log' = IF SkipChangeArea(ram) # ram THEN <<W("cat", 1)>> ELSE <<>>
    /\ pc' = "occupied"
    /\ UNCHANGED <<target, x_position_last, time_last, r, done, backup, loc,
                   bonus, fresh, out>>

OccupiedBusyOnly(m) == IsBusy(m)

\* the loop condition of _skip_occupied_states, line 309
Occupied(m) == IsBusy(m) \/ IsWorldOver(m)

(* _skip_occupied_states, lines 309-311: one iteration.                    *)
OccupiedFrame(K) ==
    /\ pc = "occupied"
    /\ Occupied(ram)
    /\ \E img \in K : ram' = img
    /\ log' = <<W("plt", 0), F(NOP)>>
    /\ UNCHANGED <<target, x_position_last, time_last, r, done, backup, pc,
                   loc, bonus, fresh, out>>

(* _skip_occupied_states, line 309: the loop ends and _did_step returns.   *)
OccupiedExit ==
    /\ pc = "occupied"
    /\ ~Occupied(ram)
    /\ pc' = "ready"
    /\ log' = <<>>
    /\ UNCHANGED <<ram, target, x_position_last, time_last, r, done, backup,
                   loc, bonus, fresh, out>>

Construct ==
    \/ CtorReset
    \/ StartPress
    \/ StartWait
    \/ StartWaitExit
    \/ StartIdle
    \/ CtorBackup

Play(D, K) ==
    \/ Reset
    \/ Step(D)
    \/ DidStepDone
    \/ KillMario(K)
    \/ NoKill
    \/ EndOfWorldEnter
    \/ EndOfWorldNone
    \/ EndOfWorldFrame(K)
    \/ EndOfWorldExit
    \/ ChangeArea
    \/ OccupiedFrame(K)
    \/ OccupiedExit

Next == Construct \/ Play(GameImages, CutsceneImages)

Spec == Init /\ [][Next]_vars

(* _did_step runs to its end: the code is sequential, so each of its steps  *)
(* is taken once it is reached, every frame advance returns, and the core  *)
(* eventually produces a frame that changes the time (in the end-of-world  *)
(* loop) and a frame that is neither busy nor world-over (in the busy      *)
(* loop).                                                                  *)
DidStepProceeds ==
    \/ DidStepDone
    \/ NoKill
    \/ KillMario(CutsceneImages)
    \/ EndOfWorldEnter
    \/ EndOfWorldNone
    \/ EndOfWorldExit
    \/ ChangeArea
    \/ OccupiedExit

CoreChangesTime == EndOfWorldFrame(CutsceneImages) /\ Time(ram') # loc[1]

CoreLeavesBusy ==
    OccupiedFrame(CutsceneImages) /\ ~IsBusy(ram') /\ ~IsWorldOver(ram')

\* _did_step reads the player state, the viewport, the gameplay mode, the
\* clock and (through done) the lives: the frames of a step vary these
LiveImages == CutsceneImages \cup GameOverImages

NextLive == Construct \/ Play(LiveImages, CutsceneImages)

SpecLive ==
    /\ Init
    /\ [][NextLive]_vars
    /\ WF_vars(DidStepProceeds)
    /\ WF_vars(CoreChangesTime)
    /\ WF_vars(CoreLeavesBusy)

\* the values of the change-area timer around its two limits
ChangeAreaTimers == {1, 2, 254, 255}

\* the frames of play seen by the skip procedures: the player, the
\* gameplay mode, the clock and the change-area timer vary
SkipImages ==
    {[PlayImage EXCEPT !.ps = p[1], !.yv = p[2], !.mode = g,
                       !.tm = <<0, 0, t>>, !.cat = c] :
        p \in PlayerScenes, g \in {1, END_OF_WORLD}, t \in GameTimes,
        c \in ChangeAreaTimers}

NextSkip == Construct \/ Play(SkipImages, SkipImages)

SpecSkip == Init /\ [][NextSkip]_vars

---------------------------------------------------------------------------
(* The decoding functions on bounded memory images.                        *)

\* every combination of set and unset target fields
Targets == [world : {<<>>, <<1>>}, stage : {<<>>, <<1>>},
            area : {<<>>, <<1>>}]

\* images for the done function: player, life and progress registers vary
DoneImages ==
    {[PlayImage EXCEPT !.ps = p, !.yv = v, !.life = l, !.mode = g,
                       !.fs = f, !.en = e] :
        p \in {0, DEAD, NORMAL, DYING}, v \in {0, 1, 2},
        l \in {0, 2, NO_LIVES}, g \in {0, 1, END_OF_WORLD},
        f \in {0, FLOAT_STAGE},
        e \in {NoEnemies, <<0, 0, 0, 0, BOWSER>>}
              \cup {<<v, 0, 0, 0, 0>> : v \in OtherEnemies}}

\* images for the stage-over function: every content of the five enemy
\* type slots over four types, the float state and the gameplay mode
StageImages ==
    {[PlayImage EXCEPT !.en = e, !.fs = f, !.mode = g] :
        e \in [ENEMY_TYPE_SLOTS -> {0} \cup OtherEnemies
                                    \cup STAGE_OVER_ENEMIES],
        f \in {0, 1, FLOAT_STAGE}, g \in {1, END_OF_WORLD}}

InitPure(images, targets) ==
    /\ ram \in images
    /\ target \in targets
    /\ x_position_last = 0
    /\ time_last = 0
    /\ r = 0
    /\ done = FALSE
    /\ backup = <<>>
    /\ pc = "call"
    /\ loc = <<>>
    /\ log = <<>>
    /\ bonus = 0
    /\ fresh = FALSE
    /\ out = <<>>

Return(fn, v) ==
    /\ pc = "call"
    /\ pc' = "returned"
    /\ out' = [fn |-> fn, v |-> v]
    /\ UNCHANGED <<ram, target, x_position_last, time_last, r, done, backup,
                   loc, log, bonus, fresh>>

EvalGetDone == Return("_get_done", GetDone(ram, target))
EvalIsStageOver == Return("_is_stage_over", IsStageOver(ram))
EvalFlagGet == Return("_flag_get", FlagGet(ram))

InitDecode ==
    \/ InitPure(DoneImages, Targets)
    \/ InitPure(StageImages, {Target11})

NextDecode == EvalGetDone \/ EvalIsStageOver \/ EvalFlagGet

SpecDecode == InitDecode /\ [][NextDecode]_vars

---------------------------------------------------------------------------
(* The tile grid on bounded memory images.                                 *)

\* the addresses of the two-page collision table
TileAddrs == ADDR_TILES .. (ADDR_TILES + 2 * TABLE_ROWS * TILE - 1)

\* contents of the collision table: empty, full, and a floor in row 11
SolidPatterns ==
    {{}, TileAddrs, {a \in TileAddrs : ((a - ADDR_TILES) \div TILE) % TABLE_ROWS = 11}}

\* active enemy slots with their page, x and y
EnemyPatterns ==
    {[act |-> <<0, 0, 0, 0>>, epage |-> <<0, 0, 0, 0>>,
      ex |-> <<0, 0, 0, 0>>, ey |-> <<0, 0, 0, 0>>],
     [act |-> <<1, 0, 0, 0>>, epage |-> <<0, 0, 0, 0>>,
      ex |-> <<140, 0, 0, 0>>, ey |-> <<170, 0, 0, 0>>],
     [act |-> <<0, 1, 0, 1>>, epage |-> <<0, 1, 0, 1>>,
      ex |-> <<0, 20, 0, 108>>, ey |-> <<0, 90, 0, 74>>]}

TileImages ==
    {[PlayImage EXCEPT !.page = pg, !.px = x, !.scr = s, !.ypx = y,
                       !.yv = v, !.solid = so, !.act = e.act,
                       !.epage = e.epage, !.ex = e.ex, !.ey = e.ey] :
        pg \in {0, 1}, x \in {0, 4, 112, 250}, s \in {0, 8, 140},
        y \in {0, 88, 176}, v \in {0, 1, 2}, so \in SolidPatterns,
        e \in EnemyPatterns}

EvalGetTiles == Return("_get_tiles", GetTiles(ram))
EvalGetInfo == Return("_get_info", GetInfo(ram, r))

InitTiles == InitPure(TileImages, {Target11})

NextTiles == EvalGetTiles \/ EvalGetInfo

SpecTiles == InitTiles /\ [][NextTiles]_vars

---------------------------------------------------------------------------
(* The claims.                                                             *)

SentinelLoaded(m) == \E i \in 1..5 : m.en[i] = 45 \/ m.en[i] = 49
Returned(fn) == pc = "returned" /\ out.fn = fn
TimeOf(m) == 100 * m.tm[1] + 10 * m.tm[2] + m.tm[3]
IsStep == pc = "ready" /\ pc' = "did_step"
IsReset == pc = "ready" /\ pc' = "ready" /\ fresh'

\* C1: _get_done returns is_dying or is_dead or flag_get when the target's
\* world and area are both set, and life = 0xFF otherwise; so a dead Mario
\* (player_state 6) ends a single-stage episode, and in multi-stage mode
\* done implies that no life is left.
C1_GetDone ==
    Returned("_get_done") =>
        /\ out.v = IF target.world # <<>> /\ target.area # <<>>
                   THEN \/ ram.ps = 11 \/ ram.yv > 1
                        \/ ram.ps = 6
                        \/ ram.mode = 2
                        \/ (SentinelLoaded(ram) /\ ram.fs = 3)
                   ELSE ram.life = 255
        /\ (target.world # <<>> /\ target.area # <<>> /\ ram.ps = 6) => out.v
        /\ (target.world = <<>> \/ target.area = <<>>) =>
               (out.v => ram.life = 255)

\* a dead Mario with lives left and no flag in a single-stage environment:
\* done is true
C1_Witness ==
    /\ Returned("_get_done")
    /\ target = Target11
    /\ ram.ps = 6 /\ ram.yv = 1 /\ ram.life = 2 /\ ram.mode = 1
    /\ out.v = TRUE

\* C2: the reward of a step is xTerm + deathTerm + timeTerm, plus 1,000,000
\* on a flag; xTerm is -10 exactly when x_position equals the previous
\* position field, timeTerm is -5000 at time 0 and 5 otherwise, deathTerm is
\* -5000 when dying or dead; the step sets the previous-position field to
\* the current x_position and leaves the previous-time field alone, and no
\* operation but a step or a reset writes the previous-position field.
C2_Reward ==
    [][ /\ IsStep =>
            LET x == 256 * ram'.page + ram'.px
                xTerm == IF x = x_position_last THEN -10 ELSE 0
                timeTerm == IF TimeOf(ram') = 0 THEN -5000 ELSE 5
                deathTerm == IF ram'.ps = 11 \/ ram'.yv > 1 \/ ram'.ps = 6
                             THEN -5000 ELSE 0
                flag == ram'.mode = 2 \/ (SentinelLoaded(ram') /\ ram'.fs = 3)
            IN  /\ r' = xTerm + deathTerm + timeTerm
                        + (IF flag THEN 1000000 ELSE 0)
                /\ x_position_last' = x
                /\ time_last' = time_last
        /\ pc \notin {"ready", "new"} => x_position_last' = x_position_last
      ]_vars

\* a step on a flag with a dying Mario who did not move, the clock running,
\* taken with a previous time below the current one
C2_Witness ==
    /\ pc = "did_step"
    /\ r = 1000000 - 10 - 5000 + 5
    /\ TimeOf(ram) > time_last

\* C3: the stored reward lies in reward_range = (-15, 15).
C3_RewardRange == r >= REWARD_MIN /\ r <= REWARD_MAX

\* C4 as stated: within one episode at most one step receives the bonus.
C4_BonusOncePerEpisode == bonus <= 1

\* C4, amended: the reward of a step holds the bonus exactly once when
\* flag_get is true and not at all otherwise (the stored reward is
\* overwritten, never accumulated), and in a single-stage environment at
\* most one step of an episode receives the bonus.
C4_Bonus ==
    [][ IsStep =>
            /\ (ram'.mode = 2 \/ (SentinelLoaded(ram') /\ ram'.fs = 3)) =>
                   (r' >= 1000000 - 10010 /\ r' <= 1000000 + 5)
            /\ ~(ram'.mode = 2 \/ (SentinelLoaded(ram') /\ ram'.fs = 3)) =>
                   (r' >= -10010 /\ r' <= 5)
            /\ (target.world # <<>> /\ target.area # <<>>) => bonus' <= 1
      ]_vars

\* a single-stage step on a flag (Mario alive, moved, the clock running):
\* the bonus is in the reward once and the episode is over
C4_Witness ==
    /\ target = Target11
    /\ pc = "ready"
    /\ done
    /\ bonus = 1
    /\ r = 1000000 + 5

\* C5: a reset puts everything a step reads in a state that is a function
\* of the backup alone (the restored image, the previous position and time
\* read from it, done false), whatever the history; the outputs of a step
\* are a function of the new image and of the previous position and time,
\* not of the stored reward; so the first step after any reset yields the
\* reward and done flag computed from the backup and the new image.
C5_ResetDeterminism ==
    [][ /\ IsReset =>
            /\ ram' = backup[1]
            /\ x_position_last' = 256 * backup[1].page + backup[1].px
            /\ time_last' = TimeOf(backup[1])
            /\ ~done' /\ loc' = <<>> /\ bonus' = 0
        /\ IsStep =>
            /\ r' = GetReward(ram', x_position_last, time_last, 0)
            /\ done' = GetDone(ram', target)
        /\ (IsStep /\ fresh) =>
            r' = GetReward(ram', XPosition(backup[1]), Time(backup[1]), 0)
      ]_vars

\* a reset taken after an episode that ended on a flag: the stored reward
\* is the old one, the caches are those of the backup
C5_Witness ==
    /\ pc = "ready"
    /\ fresh
    /\ r = 1000000 + 5
    /\ x_position_last = XPosition(backup[1])
    /\ time_last = Time(backup[1])

\* C6: the backup is written once, by the constructor, when the second loop
\* of the start-screen skip has ended, and holds the image of that moment;
\* no later operation changes it; step and reset run only with the backup
\* taken, and every reset restores exactly that image.
C6_BackupImmutable ==
    [][ /\ backup # <<>> => backup' = backup
        /\ (backup = <<>> /\ backup' # <<>>) =>
            /\ pc = "start_idle"
            /\ TimeOf(ram) < time_last
            /\ backup' = <<ram>>
            /\ ram' = ram
            /\ pc' = "ready"
        /\ pc' \notin {"new", "start_press", "start_wait", "start_idle"} =>
            backup' # <<>>
        /\ IsReset => ram' = backup'[1]
      ]_vars

\* a reset after an episode that ended with a dead Mario at time 0
C6_Witness ==
    /\ pc = "ready"
    /\ fresh
    /\ r = -10 - 5000 - 5000
    /\ ram = backup[1]

C8_PlayerCentred ==
    (Returned("_get_tiles") /\ ram.yv = 1) =>
        \A i \in 1..Len(out.v) : \A j \in 1..Len(out.v[i]) :
            out.v[i][j] = 3 => j - 1 = 7

\* the world x of the left end of the grid: x_position - left_x
ScreenLeft(m) == 256 * m.page + m.px - ((m.px - m.scr) % 256)

\* C8, amended: the grid is anchored to the screen.  With the viewport
\* visible the cells marked 3 are exactly those of the columns c (0..14)
\* with left_x - 4 <= 16c <= left_x + 12 and of the rows k (0..11) with
\* |y_pixel - 16(k + 1)| <= 8, so the column moves with left_x; with the
\* viewport not visible no cell is marked 3.  A cell marked 2 has an
\* active enemy within 8 pixels of the world x (x_position - left_x) + 16c
\* - 4, and a cell marked 0 or 1 shows the collision table at the world x
\* (x_position - left_x) + 16c.
C8_ScreenAnchored ==
    Returned("_get_tiles") =>
        \A i \in 1..Len(out.v) : \A j \in 1..Len(out.v[i]) :
            LET c == j - 1
                k == i - 1
                left_x == (ram.px - ram.scr) % 256
                wx == ScreenLeft(ram) + 16 * c
                addr == 1280 + ((wx \div 256) % 2) * 208 + 16 * k
                        + ((wx % 256) \div 16)
                y_position == IF ram.yv < 1 THEN 510 - ram.ypx
                              ELSE 255 - ram.ypx
            IN  /\ out.v[i][j] = 3 <=>
                    /\ ram.yv = 1
                    /\ left_x - 4 <= 16 * c /\ 16 * c <= left_x + 12
                    /\ ram.ypx - 16 * (k + 1) <= 8
                    /\ 16 * (k + 1) - ram.ypx <= 8
                /\ out.v[i][j] = 2 =>
                    \E s \in 1..4 :
                        /\ ram.act[s] # 0
                        /\ 256 * ram.epage[s] + ram.ex[s] - (wx - 4) <= 8
                        /\ (wx - 4) - (256 * ram.epage[s] + ram.ex[s]) <= 8
                /\ out.v[i][j] = 1 =>
                    addr \in ram.solid /\ y_position + 16 * k - 64 < 432
                /\ out.v[i][j] = 0 =>
                    ~(addr \in ram.solid /\ y_position + 16 * k - 64 < 432)

\* the viewport is visible and the player is marked in column 0
C8_Witness ==
    /\ Returned("_get_tiles")
    /\ ram.yv = 1
    /\ \E i \in 1..Len(out.v) : out.v[i][1] = 3

\* C9: _is_stage_over is true exactly when one of the five enemy type slots
\* holds Bowser (0x2D) or the flagpole (0x31) and the float state is 3;
\* _flag_get is is_world_over or is_stage_over.
C9_StageOver ==
    /\ Returned("_is_stage_over") =>
           (out.v <=> (SentinelLoaded(ram) /\ ram.fs = 3))
    /\ Returned("_flag_get") =>
           (out.v <=> (ram.mode = 2 \/ (SentinelLoaded(ram) /\ ram.fs = 3)))

\* Mario climbs a vine: float state 3, a vine and no sentinel in the slots
C9_Witness ==
    /\ Returned("_is_stage_over")
    /\ ram.fs = 3
    /\ \E i \in 1..5 : ram.en[i] = 47
    /\ \A i \in 1..5 : ram.en[i] \in {0, 47}
    /\ out.v = FALSE

\* C10: after a step that is not done, _did_step runs, in this order: the
\* forced death (if Mario is dying: player_state := 6, then one no-op
\* frame), the end-of-world skip (entered only in a multi-stage environment
\* with the world over; no-op frames), the change-area skip (the timer
\* becomes 1 when strictly between 1 and 255 and nothing else changes), the
\* busy-state skip (pre-level timer := 0, then one no-op frame, per
\* iteration); each starts when the one before has ended, and done stays
\* false throughout.
C10_SkipOrder ==
    [][ /\ (pc = "did_step" /\ ~done) =>
            /\ pc' = "end_of_world"
            /\ IF ram.ps = 11 \/ ram.yv > 1
               THEN log' = <<W("ps", 6), F(0)>>
               ELSE ram' = ram /\ log' = <<>>
        /\ pc = "end_of_world" =>
            /\ pc' \in {"end_of_world_loop", "change_area"}
            /\ ram' = ram /\ log' = <<>>
            /\ pc' = "end_of_world_loop" <=>
                   (~(target.world # <<>> /\ target.area # <<>>)
                    /\ ram.mode = 2)
        /\ pc = "end_of_world_loop" =>
            /\ ~(target.world # <<>> /\ target.area # <<>>)
            /\ pc' \in {"end_of_world_loop", "change_area"}
            /\ pc' = "end_of_world_loop" => log' = <<F(0)>>
            /\ pc' = "change_area" => ram' = ram /\ log' = <<>>
        /\ pc = "change_area" =>
            /\ pc' = "occupied"
            /\ ram' = [ram EXCEPT !.cat = IF ram.cat > 1 /\ ram.cat < 255
                                          THEN 1 ELSE ram.cat]
        /\ pc = "occupied" =>
            /\ pc' \in {"occupied", "ready"}
            /\ pc' = "occupied" => log' = <<W("plt", 0), F(0)>>
            /\ pc' = "ready" => ram' = ram /\ log' = <<>>
        /\ pc' \in {"end_of_world", "end_of_world_loop", "change_area",
                    "occupied"} => ~done'
      ]_vars

\* the change-area skip has just forced the timer to 1 in a multi-stage
\* environment
C10_Witness ==
    /\ pc = "occupied"
    /\ target = NoTarget
    /\ log = <<W("cat", 1)>>
    /\ ram.cat = 1

---------------------------------------------------------------------------
(* _get_tile_type on the cells _get_tiles samples.                         *)

\* the position page: both parities, the first and the last pages
IndexPages == {0, 1, 254, 255}
\* the x pixel: below every non-zero screen-left value and above every one
IndexPixels == {0, 255}
\* the screen-left register: every byte
Bytes == 0..255

IndexImages ==
    {[PlayImage EXCEPT !.page = pg, !.px = x, !.scr = s, !.solid = so] :
        pg \in IndexPages, x \in IndexPixels, s \in Bytes,
        so \in {{}, TileAddrs}}

(* the calls of _get_tile_type from the loops of _get_tiles, lines 485-492: *)
(* one record per sampled cell, in the arithmetic the build uses           *)
TileTypes(m, word) ==
    {[box_x |-> BoxXs[col], box_y |-> BoxYs[row],
      index |-> IF word THEN TileIndexWord(m, BoxXs[col], BoxYs[row])
                ELSE TileIndex(m, BoxXs[col], BoxYs[row]),
      type |-> GetTileType(m, BoxXs[col], BoxYs[row])] :
        col \in 1..Len(BoxXs), row \in 1..Len(BoxYs)}

EvalGetTileType ==
    \E word \in BOOLEAN : Return("_get_tile_type", TileTypes(ram, word))

InitIndex == InitPure(IndexImages, {Target11})

NextIndex == EvalGetTileType

SpecIndex == InitIndex /\ [][NextIndex]_vars

---------------------------------------------------------------------------
(* The two loops of _skip_start_screen.                                    *)

IsStartWaitIter == pc = "start_wait" /\ pc' = "start_wait"
IsStartWaitEnd == pc = "start_wait" /\ pc' = "start_idle"
IsStartIdleIter == pc = "start_idle" /\ pc' = "start_idle"
IsStartIdleEnd == pc = "start_idle" /\ pc' = "ready"
\* the second loop has already made an iteration
IdledBefore == log = <<F(START), F(NOP)>>

\* C11 (as stated): the first loop ends only when the time is non-zero,
\* each of its iterations presses and releases start, writes the target
\* world/stage/area iff the environment is single-stage and forces the
\* pre-level timer to 0; the second loop goes on while the timer is
\* decreasing from one iteration to the next and stops once the timer is no
\* longer decreasing.
C11_IdleWhileDecreasing ==
    [][ /\ (IsStartWaitEnd => Time(ram) # 0)
        /\ (IsStartWaitIter => ram'.plt = 0)
        /\ (IsStartIdleIter /\ IdledBefore => Time(ram) < time_last)
        /\ (IsStartIdleEnd => Time(ram) >= time_last)
      ]_vars

\* C11 (amended): the first loop is as stated; the second loop goes on
\* while the time is not below the time of the previous iteration (the
\* timer has not decreased yet), noting the time at each iteration, and
\* stops at the first frame pair after which the time has decreased.
C11_StartScreen ==
    [][ /\ (IsStartWaitIter =>
                /\ Time(ram) = 0
                /\ ram'.plt = 0
                /\ log' =
                     IF target.world # <<>> /\ target.area # <<>>
                     THEN <<F(START), W("wld", target.world[1] - 1),
                            W("stg", target.stage[1] - 1),
                            W("are", target.area[1] - 1), F(NOP),
                            W("plt", 0)>>
                     ELSE <<F(START), F(NOP), W("plt", 0)>>
                /\ time_last' = time_last)
        /\ (IsStartWaitEnd =>
                Time(ram) # 0 /\ ram' = ram /\ time_last' = Time(ram))
        /\ (IsStartIdleIter =>
                /\ Time(ram) >= time_last
                /\ time_last' = Time(ram)
                /\ log' = <<F(START), F(NOP)>>)
        /\ (IsStartIdleEnd =>
                /\ Time(ram) < time_last
                /\ ram' = ram
                /\ time_last' = time_last
                /\ backup' = <<ram>>)
      ]_vars

\* a single-stage environment whose second loop has iterated with a rising
\* clock and now sees the time below the noted one: the loop stops here
C11_Witness ==
    /\ pc = "start_idle"
    /\ IdledBefore
    /\ target = Target11
    /\ time_last = 2
    /\ Time(ram) = 1

---------------------------------------------------------------------------
(* The busy-state skip at the end of _did_step.                            *)

DidStepPcs ==
    {"did_step", "end_of_world", "end_of_world_loop", "change_area",
     "occupied"}
DidStepReturns == pc \in DidStepPcs /\ pc' = "ready"
IsOccupiedIter == pc = "occupied" /\ pc' = "occupied"

\* C12: when _did_step is called with done false and returns, the image is
\* neither busy nor world-over; each iteration of the busy loop runs on a
\* busy or world-over image, writes 0 to the pre-level timer and advances
\* one frame with input 0; the caller acts only between calls (never in the
\* middle of a skip sequence); and, the core eventually changing the time
\* while world-over and eventually leaving the busy/world-over states, a
\* call of _did_step eventually returns.
C12_BusySkip ==
    /\ [][ /\ (DidStepReturns /\ ~done =>
                    /\ pc = "occupied"
                    /\ ~(ram'.ps \in {0, 1, 2, 3, 4, 5, 7})
                    /\ ram'.mode # 2
                    /\ ram' = ram)
            /\ (IsOccupiedIter =>
                    /\ ram.ps \in {0, 1, 2, 3, 4, 5, 7} \/ ram.mode = 2
                    /\ log' = <<W("plt", 0), F(NOP)>>)
            /\ (pc \in DidStepPcs =>
                    /\ backup' = backup
                    /\ done' = done
                    /\ r' = r
                    /\ x_position_last' = x_position_last
                    /\ pc' \in DidStepPcs \cup {"ready"})
          ]_vars
    /\ (pc = "did_step" ~> pc = "ready")

\* the busy loop has made an iteration in a call with done false and the
\* new image is neither busy nor world-over: _did_step returns from here
C12_Witness ==
    /\ pc = "occupied"
    /\ ~done
    /\ log = <<W("plt", 0), F(NOP)>>
    /\ ~IsBusy(ram)
    /\ ~IsWorldOver(ram)

---------------------------------------------------------------------------
(* The forced death of _did_step and the single-stage done flag.           *)

SingleStage == target.world # <<>> /\ target.area # <<>>
IsForcedDeath == pc = "did_step" /\ log' = <<W("ps", 6), F(0)>>

\* C13: in a single-stage environment, whenever Mario is dying on the image
\* done was computed from, done is true; whenever _did_step is called with
\* done true it returns at once with no RAM write and no frame advance,
\* leaving the image and the previous-position/previous-time caches as they
\* were; so the forced death (player_state := 6 and one frame) runs in
\* multi-stage environments only.
C13_NoForcedDeathInSingleStage ==
    [][ /\ (pc' = "did_step" /\ SingleStage
                /\ (ram'.ps = 11 \/ ram'.yv > 1) => done')
        /\ (pc = "did_step" /\ done =>
                /\ pc' = "ready"
                /\ ram' = ram
                /\ log' = <<>>
                /\ x_position_last' = x_position_last
                /\ time_last' = time_last
                /\ done')
        /\ (IsForcedDeath => ~SingleStage /\ ~done)
      ]_vars

\* a single-stage step saw Mario dying, done was set and _did_step has
\* returned: the image is still the dying one, nothing was written
C13_Witness ==
    /\ pc = "ready"
    /\ SingleStage
    /\ done
    /\ log = <<>>
    /\ ram.ps = 11
    /\ ~fresh

---------------------------------------------------------------------------
(* The indices of _get_tile_type.                                          *)

\* C14: for every sampled cell and every image, _get_tile_type computes a
\* page index in {0, 1}, a column index in 0..15 and a row index in 0..11,
\* so the address it reads lies in the two-page collision table
\* [0x500, 0x500 + 2*13*16), also when x_position - left_x is negative; the
\* defensive bound (row >= 13 or row < 0) is not taken, and the result is
\* 1 exactly when the byte at that address is non-zero.
C14_TileIndexInTable ==
    Returned("_get_tile_type") =>
        /\ Cardinality(out.v) = 15 * 12
        /\ \A c \in out.v :
            LET i == c.index
            IN  /\ i.page \in {0, 1}
                /\ i.sub_x \in 0..15
                /\ i.sub_y \in 0..11
                /\ i.addr >= 1280
                /\ i.addr < 1280 + 2 * 13 * 16
                /\ i.addr = 1280 + i.page * 208 + i.sub_y * 16 + i.sub_x
                /\ c.type = (IF i.addr \in ram.solid THEN 1 ELSE 0)

\* a cell left of the screen's left edge on page 0: x_position - left_x
\* and the local x are negative, and the tile read is a solid one
C14_Witness ==
    /\ Returned("_get_tile_type")
    /\ ram.page = 0
    /\ ram.px = 0
    /\ ram.scr = 8
    /\ \E c \in out.v :
        /\ c.box_x = -112
        /\ c.index.page = 1
        /\ c.index.sub_x = 0
        /\ c.type = 1

=============================================================================
